---- MODULE Spec2Model ----
(***************************************************************************)
(* A model of SwaggerConvert.py: the conversion of a Swagger 1.2 resource  *)
(* listing and its API declarations into one Swagger 2.0 document.         *)
(*                                                                         *)
(* Python values are represented as follows.                               *)
(*   - A string the code takes apart, joins or changes (the URL, a         *)
(*     reference path, an HTTP method, a type, a response model, a         *)
(*     response code) is a sequence of one-character strings.              *)
(*   - A string the code only copies or tests for emptiness (a             *)
(*     description, a summary, a name) is a TLA+ string.                   *)
(*   - A dict is a function; a key is present iff it is in the DOMAIN.     *)
(*     The insertion order of a dict is not modelled.                      *)
(*   - A list is a sequence.                                               *)
(***************************************************************************)
EXTENDS Integers, Sequences, FiniteSets, TLC

(***************************************************************************)
(* Python values and dict operations                                       *)
(***************************************************************************)

\* Python's None (lines 99 and 136; never compared with a value of another kind).
None == [None |-> TRUE]

\* {}
EmptyDict == [k \in {} |-> k]

\* d.get(k, default)
Get(d, k, default) == IF k \in DOMAIN d THEN d[k] ELSE default

\* d[k] = v
Put(d, k, v) == [x \in (DOMAIN d) \cup {k} |-> IF x = k THEN v ELSE d[x]]

\* del d[k]
Del(d, k) == [x \in (DOMAIN d) \ {k} |-> d[x]]

(***************************************************************************)
(* Strings as sequences of characters                                      *)
(***************************************************************************)

Upper == <<"A","B","C","D","E","F","G","H","I","J","K","L","M",
           "N","O","P","Q","R","S","T","U","V","W","X","Y","Z">>
LowerCase == <<"a","b","c","d","e","f","g","h","i","j","k","l","m",
               "n","o","p","q","r","s","t","u","v","w","x","y","z">>

LowerChar(c) ==
    IF \E k \in DOMAIN Upper : Upper[k] = c
    THEN LowerCase[CHOOSE k \in DOMAIN Upper : Upper[k] = c]
    ELSE c

\* s.lower()
Lower(s) == [k \in DOMAIN s |-> LowerChar(s[k])]

\* s[from:] (from is 1-based here)
Drop(s, from) == SubSeq(s, from, Len(s))

\* s.startswith(p), tested at position k of s
MatchAt(s, k, p) ==
    /\ k + Len(p) - 1 <= Len(s)
    /\ \A j \in 1..Len(p) : s[k + j - 1] = p[j]

\* s.endswith(suffix)
EndsWith(s, suffix) ==
    /\ Len(suffix) <= Len(s)
    /\ MatchAt(s, Len(s) - Len(suffix) + 1, suffix)

\* s.rstrip(c)
RECURSIVE RStrip(_, _)
RStrip(s, c) ==
    IF s # <<>> /\ s[Len(s)] = c THEN RStrip(SubSeq(s, 1, Len(s) - 1), c) ELSE s

\* s.split(sep)[-1] for a one-character sep: what follows the last sep
RECURSIVE LastSegment(_, _)
LastSegment(s, sep) ==
    IF \E k \in DOMAIN s : s[k] = sep
    THEN LastSegment(Drop(s, (CHOOSE k \in DOMAIN s : s[k] = sep /\ \A j \in 1..(k-1) : s[j] # sep) + 1), sep)
    ELSE s

\* s.replace(old, new): every non-overlapping occurrence, left to right
RECURSIVE Replace(_, _, _)
Replace(s, old, new) ==
    IF s = <<>> THEN <<>>
    ELSE IF MatchAt(s, 1, old)
         THEN new \o Replace(Drop(s, Len(old) + 1), old, new)
         ELSE <<s[1]>> \o Replace(Drop(s, 2), old, new)

Digits == <<"0","1","2","3","4","5","6","7","8","9">>

\* str(n) for a non-negative integer
RECURSIVE Str(_)
Str(n) == IF n < 10 THEN <<Digits[n + 1]>> ELSE Str(n \div 10) \o <<Digits[(n % 10) + 1]>>

\* The position of the first character of s that is in cs, or Len(s)+1
FirstOf(s, cs) ==
    IF \E k \in DOMAIN s : s[k] \in cs
    THEN CHOOSE k \in DOMAIN s : s[k] \in cs /\ \A j \in 1..(k-1) : s[j] \notin cs
    ELSE Len(s) + 1

(***************************************************************************)
(* Literals of the source                                                  *)
(***************************************************************************)

\* "api-docs" (line 22)
ApiDocs == <<"a","p","i","-","d","o","c","s">>

\* "-controller" (line 61)
ControllerWord == <<"-","c","o","n","t","r","o","l","l","e","r">>

\* "string" (line 87)
StringType == <<"s","t","r","i","n","g">>

\* "#/definitions/" (line 99)
DefinitionsRef == <<"#","/","d","e","f","i","n","i","t","i","o","n","s","/">>

\* "://" (line 30)
SchemeSep == <<":","/","/">>

(***************************************************************************)
(* urllib.parse.urlparse, as far as lines 27-30 use it: scheme, netloc,    *)
(* path.  The scheme is what precedes the first ":" when that is a letter  *)
(* followed by letters, digits, "+", "-" or "."; the netloc follows "//"   *)
(* up to the first "/", "?" or "#"; the path ends at the first "?" or "#". *)
(***************************************************************************)

SchemeChars ==
    {Upper[k] : k \in DOMAIN Upper} \cup {LowerCase[k] : k \in DOMAIN LowerCase}
        \cup {Digits[k] : k \in DOMAIN Digits} \cup {"+", "-", "."}

Letters == {Upper[k] : k \in DOMAIN Upper} \cup {LowerCase[k] : k \in DOMAIN LowerCase}

HasScheme(url) ==
    LET c == FirstOf(url, {":"})
    IN  /\ c <= Len(url)
        /\ c > 1
        /\ url[1] \in Letters
        /\ \A k \in 1..(c - 1) : url[k] \in SchemeChars

urlparse(url) ==
    LET c      == FirstOf(url, {":"})
        scheme == IF HasScheme(url) THEN Lower(SubSeq(url, 1, c - 1)) ELSE <<>>
        rest   == IF HasScheme(url) THEN Drop(url, c + 1) ELSE url
        hasNet == MatchAt(rest, 1, <<"/","/">>)
        afterS == Drop(rest, 3)
        netEnd == FirstOf(afterS, {"/", "?", "#"})
        netloc == IF hasNet THEN SubSeq(afterS, 1, netEnd - 1) ELSE <<>>
        tail   == IF hasNet THEN Drop(afterS, netEnd) ELSE rest
        path   == SubSeq(tail, 1, FirstOf(tail, {"?", "#"}) - 1)
    IN  [scheme |-> scheme, netloc |-> netloc, path |-> path]

(***************************************************************************)
(* The mapping of one API reference, operation, response and model         *)
(***************************************************************************)

\* line 61: api_entry["path"].split("/")[-1].replace("-controller", "")
TagName(api_entry) == Replace(LastSegment(api_entry.path, "/"), ControllerWord, <<>>)

\* AddTag without the test of line 62: every API reference appends an entry
AddTagAlways(tags, seen, api_entry) ==
    Append(tags, [name |-> TagName(api_entry), description |-> api_entry.description])

\* lines 62-67: the tag list and the seen set after one API reference
AddTag(tags, seen, api_entry) ==
    IF TagName(api_entry) \notin seen
    THEN Append(tags, [name |-> TagName(api_entry), description |-> api_entry.description])
    ELSE tags

\* lines 82-90: one parameter
ConvertParameter(param) ==
    LET param_spec == [name        |-> param.name,
                       in          |-> param.paramType,
                       description |-> Get(param, "description", ""),
                       required    |-> param.required,
                       type        |-> Lower(Get(param, "type", StringType))]
    IN  IF "format" \in DOMAIN param
        THEN Put(param_spec, "format", param.format)
        ELSE param_spec

\* lines 78-91: the parameter list of an operation
ConvertParameters(operation) ==
    LET ps == Get(operation, "parameters", <<>>)
    IN  [k \in DOMAIN ps |-> ConvertParameter(ps[k])]

\* lines 97-100: one response object
ConvertResponse(resp) ==
    [description |-> IF resp.message # "" THEN resp.message ELSE "No description",
     schema      |-> IF resp.responseModel # <<>>
                     THEN ("$ref" :> (DefinitionsRef \o resp.responseModel))
                     ELSE None]

\* lines 94-100: the responses of an operation, the first n messages taken
RECURSIVE ResponsesUpTo(_, _)
ResponsesUpTo(msgs, n) ==
    IF n = 0 THEN EmptyDict
    ELSE Put(ResponsesUpTo(msgs, n - 1), Str(msgs[n].code), ConvertResponse(msgs[n]))

ConvertResponses(operation) ==
    LET msgs == Get(operation, "responseMessages", <<>>)
    IN  ResponsesUpTo(msgs, Len(msgs))

\* BuildOperation leaving the tag list empty
BuildOperationNoTag(operation, tag_name) ==
    [tags        |-> <<>>,
     summary     |-> operation.summary,
     description |-> operation.notes,
     parameters  |-> ConvertParameters(operation),
     responses   |-> ConvertResponses(operation),
     consumes    |-> operation.consumes,
     produces    |-> operation.produces]

\* lines 103-111: the operation object
BuildOperation(operation, tag_name) ==
    [tags        |-> <<tag_name>>,
     summary     |-> operation.summary,
     description |-> operation.notes,
     parameters  |-> ConvertParameters(operation),
     responses   |-> ConvertResponses(operation),
     consumes    |-> operation.consumes,
     produces    |-> operation.produces]

\* StoreOperation keeping an operation already stored under (path, method)
StoreOperationKeepFirst(paths, path, method, operation_obj) ==
    IF path \in DOMAIN paths /\ method \in DOMAIN paths[path]
    THEN paths
    ELSE Put(paths, path, Put(Get(paths, path, EmptyDict), method, operation_obj))

\* lines 114-116: paths[path][method] = operation_obj
StoreOperation(paths, path, method, operation_obj) ==
    Put(paths, path, Put(Get(paths, path, EmptyDict), method, operation_obj))

\* lines 76-116: the operations of one endpoint, the first n taken
RECURSIVE MergeOperations(_, _, _, _)
MergeOperations(paths, endpoint, tag_name, n) ==
    IF n = 0 THEN paths
    ELSE StoreOperation(MergeOperations(paths, endpoint, tag_name, n - 1),
                        endpoint.path,
                        Lower(endpoint.operations[n].method),
                        BuildOperation(endpoint.operations[n], tag_name))

\* lines 74-116: the endpoints of one declaration, the first n taken
RECURSIVE MergeEndpoints(_, _, _, _)
MergeEndpoints(paths, endpoints, tag_name, n) ==
    IF n = 0 THEN paths
    ELSE MergeOperations(MergeEndpoints(paths, endpoints, tag_name, n - 1),
                         endpoints[n], tag_name, Len(endpoints[n].operations))

\* line 74 with lines 75-116: api_details merged into paths
MergeDeclaration(paths, api_details, tag_name) ==
    LET endpoints == Get(api_details, "apis", <<>>)
    IN  MergeEndpoints(paths, endpoints, tag_name, Len(endpoints))

\* lines 123-131: one property of a model
ConvertProperty(prop_def) ==
    LET prop_spec == [type        |-> Lower(prop_def.type),
                      description |-> Get(prop_def, "description", "")]
    IN  IF Get(prop_def, "format", "") # ""
        THEN Put(prop_spec, "format", prop_def.format)
        ELSE prop_spec

\* lines 121-130: the names flagged required among the first n items of
\* model_def["properties"].items(); the items are a sequence of
\* [name, def] with distinct names, in the dict's order
RECURSIVE RequiredUpTo(_, _)
RequiredUpTo(items, n) ==
    IF n = 0 THEN <<>>
    ELSE IF Get(items[n].def, "required", FALSE)
         THEN Append(RequiredUpTo(items, n - 1), items[n].name)
         ELSE RequiredUpTo(items, n - 1)

\* lines 120-131: the properties mapping
ConvertProperties(items) ==
    [p \in {items[k].name : k \in DOMAIN items} |->
        ConvertProperty(items[CHOOSE k \in DOMAIN items : items[k].name = p].def)]

\* lines 120-138: one definition
ConvertModel(model_def) ==
    LET required == RequiredUpTo(model_def.properties, Len(model_def.properties))
    IN  [type        |-> "object",
         properties  |-> ConvertProperties(model_def.properties),
         required    |-> IF required # <<>> THEN required ELSE None,
         description |-> Get(model_def, "description", "")]

\* lines 119-138: definitions
ConvertModels(input) ==
    LET models == Get(input, "models", EmptyDict)
    IN  [m \in DOMAIN models |-> ConvertModel(models[m])]

\* CleanOperation without lines 145-146: only the responses are cleaned
CleanOperationResponsesOnly(method) ==
    IF DOMAIN method.responses = {} THEN Del(method, "responses") ELSE method

\* lines 143-146: one operation object cleaned
CleanOperation(method) ==
    LET a == IF DOMAIN method.responses = {} THEN Del(method, "responses") ELSE method
    IN  IF DOMAIN a.parameters = {} THEN Del(a, "parameters") ELSE a

\* lines 141-146: paths cleaned
CleanUp(paths) ==
    [p \in DOMAIN paths |-> [m \in DOMAIN paths[p] |-> CleanOperation(paths[p][m])]]


(***************************************************************************)
(* The inputs: origin URLs, resource listings, API declarations            *)
(***************************************************************************)

\* The longest resource listing (number of API references) when the tags vary
MaxApis == 3

\* The longest resource listing when the declarations vary
MaxControllers == 2

SeqsUpTo(S, n) == UNION {[1..k -> S] : k \in 0..n}

Http     == <<"h","t","t","p">>
HostName == <<"h","o","s","t">>
V1       == <<"/","v","1">>

\* http://host/v1/api-docs
UrlA        == Http \o SchemeSep \o HostName \o V1 \o <<"/">> \o ApiDocs
\* https://host/api-docs
UrlHttps    == Http \o <<"s">> \o SchemeSep \o HostName \o <<"/">> \o ApiDocs
\* HTTP://host/api-docs
UrlUpper    == <<"H","T","T","P">> \o SchemeSep \o HostName \o <<"/">> \o ApiDocs
\* http://host/v1/xapi-docs
UrlX        == Http \o SchemeSep \o HostName \o V1 \o <<"/","x">> \o ApiDocs
\* http://host/v1/?api-docs
UrlQuery    == Http \o SchemeSep \o HostName \o V1 \o <<"/","?">> \o ApiDocs
\* host/api-docs
UrlNoScheme == HostName \o <<"/">> \o ApiDocs
\* http://host/v1/api-docs/
UrlSlash    == UrlA \o <<"/">>
\* http://host/v1/docs
UrlDocs     == Http \o SchemeSep \o HostName \o V1 \o <<"/","d","o","c","s">>

Urls == {UrlA, UrlHttps, UrlUpper, UrlX, UrlQuery, UrlNoScheme, UrlSlash, UrlDocs}

Pet   == <<"p","e","t">>
Store == <<"s","t","o","r","e">>

\* Reference paths: /pet-controller, /pet, /api/pet-controller, /store-controller,
\* /a-controller-b, /a-b, /x-controller-y-controller
\* (line 61: api_entry["path"])
RefPet      == <<"/">> \o Pet \o ControllerWord
RefPetPlain == <<"/">> \o Pet
RefPetDeep  == <<"/","a","p","i","/">> \o Pet \o ControllerWord
RefStore    == <<"/">> \o Store \o ControllerWord
RefInner    == <<"/","a">> \o ControllerWord \o <<"-","b">>
RefInnerNo  == <<"/","a","-","b">>
RefTwice    == <<"/","x">> \o ControllerWord \o <<"-","y">> \o ControllerWord

ApiEntry(path, description) == [path |-> path, description |-> description]

\* Parameters (line 81: operation["parameters"])
ParamId   == [name |-> "id", paramType |-> "path", required |-> TRUE,
              type |-> <<"I","n","t","e","g","e","r">>, format |-> "int64",
              description |-> "the id"]
ParamBody == [name |-> "body", paramType |-> "body", required |-> FALSE]

\* Response messages (line 95: operation["responseMessages"])
RespOkPet   == [code |-> 200, message |-> "ok", responseModel |-> <<"P","e","t">>]
RespOkPlain == [code |-> 200, message |-> "", responseModel |-> <<>>]
RespMissing == [code |-> 404, message |-> "not found", responseModel |-> <<>>]

Json == <<"application/json">>

\* Operations (line 76: endpoint["operations"])
OpList == [method |-> <<"G","E","T">>, summary |-> "list", notes |-> "all pets",
           consumes |-> <<>>, produces |-> Json]
OpFind == [method |-> <<"g","e","t">>, summary |-> "find", notes |-> "",
           parameters |-> <<ParamId, ParamBody>>,
           responseMessages |-> <<RespOkPlain, RespOkPet, RespMissing>>,
           consumes |-> <<>>, produces |-> Json]
OpAdd  == [method |-> <<"P","O","S","T">>, summary |-> "add", notes |-> "adds",
           parameters |-> <<>>,
           responseMessages |-> <<RespOkPet, RespOkPlain>>,
           consumes |-> Json, produces |-> Json]
OpDrop == [method |-> <<"P","o","s","t">>, summary |-> "drop", notes |-> "drops",
           parameters |-> <<ParamBody>>, responseMessages |-> <<>>,
           consumes |-> Json, produces |-> <<>>]

Operations == {OpList, OpFind, OpAdd, OpDrop}

Endpoint(path, operations) == [path |-> path, operations |-> operations]

\* API declarations (line 15: what a declaration request returns)
OneOperation ==
    {Endpoint("/pet", <<a>>) : a \in Operations}
        \cup {Endpoint("/pet/{id}", <<a>>) : a \in {OpFind, OpDrop}}

TwoOperations ==
    {Endpoint("/pet", <<OpList, OpFind>>), Endpoint("/pet", <<OpAdd, OpDrop>>),
     Endpoint("/pet", <<OpDrop, OpAdd>>)}

Declarations ==
    {[apis |-> <<>>]}
        \cup {[apis |-> <<e>>] : e \in OneOperation \cup TwoOperations}
        \cup {[apis |-> <<Endpoint("/pet", <<OpFind>>), Endpoint("/pet", <<OpList>>)>>],
              [apis |-> <<Endpoint("/pet", <<OpAdd>>), Endpoint("/pet/{id}", <<OpList>>)>>],
              [apis |-> <<Endpoint("/pet", <<OpList, OpFind>>), Endpoint("/pet", <<OpAdd>>)>>]}

FewDeclarations == {[apis |-> <<Endpoint("/pet", <<OpList>>)>>]}

\* Models (line 119: input_data["models"])
Item(name, def) == [name |-> name, def |-> def]

PropId   == [type |-> <<"I","n","t","e","g","e","r">>, format |-> "int64", required |-> TRUE]
PropName == [type |-> <<"s","t","r","i","n","g">>, description |-> "the name", required |-> TRUE]
PropTag  == [type |-> <<"S","t","r","i","n","g">>, required |-> FALSE]
PropNote == [type |-> <<"s","t","r","i","n","g">>, format |-> ""]

Properties == {Item("id", PropId), Item("name", PropName), Item("tag", PropTag), Item("note", PropNote)}

ModelDefs ==
    {[properties |-> ps] :
        ps \in {q \in SeqsUpTo(Properties, 2) : \A j, k \in DOMAIN q : j # k => q[j].name # q[k].name}}
        \cup {[properties |-> <<Item("tag", PropTag), Item("name", PropName), Item("id", PropId)>>,
               description |-> "a pet"]}

ModelMaps == {EmptyDict} \cup {("Pet" :> m) : m \in ModelDefs}
                \cup {("Pet" :> m @@ "Tag" :> [properties |-> <<Item("note", PropNote)>>]) : m \in ModelDefs}

Info == [title |-> "Pet store"]

\* Resource listings (line 37: what the request of the origin URL returns)
Listing(apis) == [info |-> Info, apis |-> apis]

TagEntries ==
    {ApiEntry(RefPet, "Pets"), ApiEntry(RefPetPlain, "Other"), ApiEntry(RefPetDeep, "Deep"),
     ApiEntry(RefInner, "Inner"), ApiEntry(RefInnerNo, "Pets"), ApiEntry(RefTwice, "Twice")}

TagListings == {Listing(apis) : apis \in SeqsUpTo(TagEntries, MaxApis)}

PathListings ==
    {Listing([k \in 1..n |-> IF k % 2 = 1 THEN ApiEntry(RefPet, "Pets") ELSE ApiEntry(RefStore, "Store")]) :
        n \in 0..MaxControllers}

ModelListings ==
    {Put(Listing(<<ApiEntry(RefPet, "Pets")>>), "models", ms) : ms \in ModelMaps}
        \cup {Put(Listing(<<>>), "apiVersion", "2.1")}

(***************************************************************************)
(* The program state                                                       *)
(***************************************************************************)

VARIABLES
    api_docs_url,   \* line 152: the URL entered
    remote,         \* the service: the listing it serves and the declarations it may serve
    pc,             \* the position in convert_swagger_12_to_20 and the main block
    parsed_url,     \* line 27
    base_url,       \* line 30
    input_data,     \* line 37
    swagger_20,     \* line 43
    seen_tags,      \* line 58
    idx,            \* line 59: the number of API references taken so far
    requests,       \* the requests.get calls made so far: [url, ok]
    details,        \* line 71: the api_details of every API reference taken so far
    printed,        \* the failure messages printed so far
    output,         \* line 157: what convert_swagger_12_to_20 returned
    saved           \* line 161: the documents written to swagger.json

vars == <<api_docs_url, remote, pc, parsed_url, base_url, input_data, swagger_20,
          seen_tags, idx, requests, details, printed, output, saved>>

world  == <<api_docs_url, remote>>
locals == <<parsed_url, base_url, input_data, swagger_20, seen_tags, idx, details>>

\* line 28
host == parsed_url.netloc

\* line 29
base_path == RStrip(parsed_url.path, "/")

Start(urls, listings, declarations) ==
    /\ api_docs_url \in urls
    /\ remote \in [listing : listings, declarations : {declarations}]
    /\ pc = "start"
    /\ parsed_url = [scheme |-> <<>>, netloc |-> <<>>, path |-> <<>>]
    /\ base_url = <<>>
    /\ input_data = EmptyDict
    /\ swagger_20 = EmptyDict
    /\ seen_tags = {}
    /\ idx = 0
    /\ requests = <<>>
    /\ details = <<>>
    /\ printed = <<>>
    /\ output = EmptyDict
    /\ saved = <<>>

Init ==
    \/ Start({UrlA, UrlDocs}, TagListings, FewDeclarations)
    \/ Start({UrlA}, PathListings, Declarations)
    \/ Start({UrlA}, ModelListings, FewDeclarations)
    \/ Start(Urls, {Listing(<<>>), Listing(<<ApiEntry(RefPet, "Pets")>>)}, FewDeclarations)

(***************************************************************************)
(* convert_swagger_12_to_20                                                *)
(***************************************************************************)

\* lines 22-24: the URL does not end with "api-docs"
RejectUrl ==
    /\ pc = "start"
    /\ ~EndsWith(api_docs_url, ApiDocs)
    /\ printed' = Append(printed, "Error: The provided URL does not end with 'api-docs'.")
    /\ output' = EmptyDict
    /\ pc' = "returned"
    /\ UNCHANGED <<world, locals, requests, saved>>

\* lines 22, 27-30: the URL is accepted and parsed
ParseUrl ==
    /\ pc = "start"
    /\ EndsWith(api_docs_url, ApiDocs)
    /\ parsed_url' = urlparse(api_docs_url)
    /\ base_url' = urlparse(api_docs_url).scheme \o SchemeSep \o urlparse(api_docs_url).netloc
                       \o RStrip(urlparse(api_docs_url).path, "/") \o <<"/">>
    /\ pc' = "fetch"
    /\ UNCHANGED <<world, input_data, swagger_20, seen_tags, idx, details,
                   requests, printed, output, saved>>

\* requests.get raises MissingSchema / InvalidSchema unless the URL is http(s)
Fetchable(url) == urlparse(url).scheme \in {Http, Http \o <<"s">>}

\* lines 43-55: the initial document
InitialDocument(input) ==
    [swagger     |-> "2.0",
     info        |-> Put(input.info, "version", Get(input, "apiVersion", "1.0")),
     host        |-> host,
     basePath    |-> base_path,
     schemes     |-> <<parsed_url.scheme>>,
     paths       |-> EmptyDict,
     definitions |-> EmptyDict,
     tags        |-> <<>>]

\* lines 33-37, 43-58: the listing is fetched
FetchListing ==
    /\ pc = "fetch"
    /\ Fetchable(api_docs_url)
    /\ requests' = Append(requests, [url |-> api_docs_url, ok |-> TRUE])
    /\ input_data' = remote.listing
    /\ swagger_20' = InitialDocument(remote.listing)
    /\ seen_tags' = {}
    /\ idx' = 0
    /\ pc' = "apis"
    /\ UNCHANGED <<world, parsed_url, base_url, details, printed, output, saved>>

\* lines 33-40: the request of the listing fails
FetchListingFails ==
    /\ pc = "fetch"
    /\ requests' = Append(requests, [url |-> api_docs_url, ok |-> FALSE])
    /\ printed' = Append(printed, "Failed to fetch api-docs data")
    /\ output' = EmptyDict
    /\ pc' = "returned"
    /\ UNCHANGED <<world, locals, saved>>

\* lines 59-116: one API reference, api_details being what fetch_api_details returned
TakeApiEntry(api_details) ==
    LET api_entry == input_data.apis[idx + 1]
        tag_name  == TagName(api_entry)
    IN  /\ swagger_20' =
               [swagger_20 EXCEPT
                   !.tags  = AddTag(swagger_20.tags, seen_tags, api_entry),
                   !.paths = MergeDeclaration(swagger_20.paths, api_details, tag_name)]
        /\ seen_tags' = seen_tags \cup {tag_name}
        /\ details' = Append(details, api_details)
        /\ idx' = idx + 1

\* lines 6-15, 59-116: the declaration is fetched and merged
FetchDeclaration ==
    /\ pc = "apis"
    /\ idx < Len(input_data.apis)
    /\ \E declaration \in remote.declarations :
           /\ requests' = Append(requests,
                  [url |-> base_url \o input_data.apis[idx + 1].path, ok |-> TRUE])
           /\ TakeApiEntry(declaration)
    /\ UNCHANGED <<world, pc, parsed_url, base_url, input_data, printed, output, saved>>

\* FetchDeclarationFails with the failure ending the conversion, as lines 38-40 do
FetchDeclarationFailsAborts ==
    /\ pc = "apis"
    /\ idx < Len(input_data.apis)
    /\ requests' = Append(requests,
           [url |-> base_url \o input_data.apis[idx + 1].path, ok |-> FALSE])
    /\ printed' = Append(printed, "Failed to fetch data")
    /\ output' = EmptyDict
    /\ pc' = "returned"
    /\ UNCHANGED <<world, locals, saved>>

\* lines 6-18, 59-116: the request of the declaration fails, fetch_api_details returns {}
FetchDeclarationFails ==
    /\ pc = "apis"
    /\ idx < Len(input_data.apis)
    /\ requests' = Append(requests,
           [url |-> base_url \o input_data.apis[idx + 1].path, ok |-> FALSE])
    /\ printed' = Append(printed, "Failed to fetch data")
    /\ TakeApiEntry(EmptyDict)
    /\ UNCHANGED <<world, pc, parsed_url, base_url, input_data, output, saved>>

\* lines 118-138: the model definitions
Models ==
    /\ pc = "apis"
    /\ idx = Len(input_data.apis)
    /\ swagger_20' = [swagger_20 EXCEPT !.definitions = ConvertModels(input_data)]
    /\ pc' = "cleanup"
    /\ UNCHANGED <<world, parsed_url, base_url, input_data, seen_tags, idx, details,
                   requests, printed, output, saved>>

\* lines 140-148: the empty fields are removed and the document is returned
CleanUpAndReturn ==
    /\ pc = "cleanup"
    /\ swagger_20' = [swagger_20 EXCEPT !.paths = CleanUp(swagger_20.paths)]
    /\ output' = [swagger_20 EXCEPT !.paths = CleanUp(swagger_20.paths)]
    /\ pc' = "returned"
    /\ UNCHANGED <<world, parsed_url, base_url, input_data, seen_tags, idx, details,
                   requests, printed, saved>>

(***************************************************************************)
(* The main block                                                          *)
(***************************************************************************)

\* Save without the test of line 159
SaveAlways ==
    /\ pc = "returned"
    /\ saved' = Append(saved, output)
    /\ pc' = "done"
    /\ UNCHANGED <<world, locals, requests, printed, output>>

\* lines 159-164: a non-empty result is written to swagger.json
Save ==
    /\ pc = "returned"
    /\ DOMAIN output # {}
    /\ saved' = Append(saved, output)
    /\ pc' = "done"
    /\ UNCHANGED <<world, locals, requests, printed, output>>

\* line 159: an empty result is not written
Skip ==
    /\ pc = "returned"
    /\ DOMAIN output = {}
    /\ pc' = "done"
    /\ UNCHANGED <<world, locals, requests, printed, output, saved>>

Next ==
    \/ RejectUrl
    \/ ParseUrl
    \/ FetchListing
    \/ FetchListingFails
    \/ FetchDeclaration
    \/ FetchDeclarationFails
    \/ Models
    \/ CleanUpAndReturn
    \/ Save
    \/ Skip

Spec == Init /\ [][Next]_vars
(***************************************************************************)
(* Properties                                                              *)
(***************************************************************************)

\* convert_swagger_12_to_20 has returned a document
Returned == pc \in {"returned", "done"} /\ DOMAIN output # {}

\* The tag names of the listing's API references, as line 61 derives them
TagNames == {TagName(input_data.apis[k]) : k \in DOMAIN input_data.apis}

\* The first API reference of the listing with tag name t
FirstRef(t) ==
    CHOOSE k \in DOMAIN input_data.apis :
        /\ TagName(input_data.apis[k]) = t
        /\ \A j \in 1..(k - 1) : TagName(input_data.apis[j]) # t

\* C1: the tags of the returned document are one entry per distinct tag name of
\* the listing, no name twice, in the order of the names' first occurrences, each
\* with the description of the first API reference that produced the name.
C1_TagsFirstSeen ==
    Returned =>
        LET tags == output.tags
        IN  /\ Len(tags) = Cardinality(TagNames)
            /\ \A j, k \in DOMAIN tags : j # k => tags[j].name # tags[k].name
            /\ \A k \in DOMAIN tags :
                   /\ tags[k].name \in TagNames
                   /\ tags[k].description = input_data.apis[FirstRef(tags[k].name)].description
            /\ \A j, k \in DOMAIN tags :
                   j < k => FirstRef(tags[j].name) < FirstRef(tags[k].name)

\* A document was returned for a listing in which a later API reference repeats
\* the tag name of an earlier one with another description.
C1_Witness ==
    /\ Returned
    /\ \E j, k \in DOMAIN input_data.apis :
           /\ j < k
           /\ TagName(input_data.apis[j]) = TagName(input_data.apis[k])
           /\ input_data.apis[j].description # input_data.apis[k].description
    /\ Cardinality(TagNames) > 1

\* The final segment with only a trailing "-controller" removed
StripControllerSuffix(segment) ==
    IF EndsWith(segment, ControllerWord)
    THEN SubSeq(segment, 1, Len(segment) - Len(ControllerWord))
    ELSE segment

\* C10: the tag name of an API reference is the final segment of its path with
\* only a trailing "-controller" stripped, so the returned document has one tag
\* entry per distinct such name, a "-controller" inside the segment being kept.
C10_TrailingSuffixOnly ==
    Returned =>
        LET names == {StripControllerSuffix(LastSegment(input_data.apis[k].path, "/")) :
                          k \in DOMAIN input_data.apis}
        IN  /\ {output.tags[k].name : k \in DOMAIN output.tags} = names
            /\ Len(output.tags) = Cardinality(names)

\* C7: a URL that does not end with "api-docs" is reported and nothing is
\* requested, mapped or written; a failed request of the listing is the only
\* request made and nothing is mapped or written; swagger.json is written only
\* with a non-empty result.
C7_NoFetchNoOutput ==
    /\ ~EndsWith(api_docs_url, ApiDocs) =>
           /\ requests = <<>>
           /\ swagger_20 = EmptyDict /\ input_data = EmptyDict /\ details = <<>>
           /\ saved = <<>>
           /\ pc \in {"returned", "done"} =>
                  /\ DOMAIN output = {}
                  /\ printed = <<"Error: The provided URL does not end with 'api-docs'.">>
    /\ (requests # <<>> /\ ~requests[1].ok) =>
           /\ Len(requests) = 1
           /\ swagger_20 = EmptyDict /\ details = <<>>
           /\ DOMAIN output = {}
           /\ saved = <<>>
    /\ \A k \in DOMAIN saved : DOMAIN saved[k] # {}

\* The main block has ended for a URL that does not end with "api-docs".
C7_Witness == pc = "done" /\ ~EndsWith(api_docs_url, ApiDocs) /\ printed # <<>>

\* C5: for the origin URL http://host/v1/api-docs the returned document has host
\* "host", basePath "/v1" and schemes ["http"].
C5_OriginUrlParts ==
    (Returned /\ api_docs_url = UrlA) =>
        /\ output.host = HostName
        /\ output.basePath = V1
        /\ output.schemes = <<Http>>

(***************************************************************************)
(* The operations of the source, by position: <<i, e, o>> is operation o   *)
(* of endpoint e of the declaration fetched for API reference i.           *)
(***************************************************************************)

EndpointsOf(i) == Get(details[i], "apis", <<>>)

Occurrences ==
    UNION {UNION {{<<i, e, o>> : o \in DOMAIN EndpointsOf(i)[e].operations} :
                      e \in DOMAIN EndpointsOf(i)} :
               i \in DOMAIN details}

SourceEndpoint(t) == EndpointsOf(t[1])[t[2]]

SourceOperation(t) == SourceEndpoint(t).operations[t[3]]

\* t comes before u in source order
Before(t, u) ==
    \/ t[1] < u[1]
    \/ t[1] = u[1] /\ t[2] < u[2]
    \/ t[1] = u[1] /\ t[2] = u[2] /\ t[3] < u[3]

\* The occurrences of the pair (path, lower-cased method)
Writers(path, method) ==
    {t \in Occurrences :
        SourceEndpoint(t).path = path /\ Lower(SourceOperation(t).method) = method}

\* The occurrence of (path, method) processed last
LastWriter(path, method) ==
    CHOOSE t \in Writers(path, method) :
        \A u \in Writers(path, method) : u = t \/ Before(u, t)

\* The (path, method) pairs of the returned document
Stored == UNION {{<<p, m>> : m \in DOMAIN output.paths[p]} : p \in DOMAIN output.paths}

\* C2: every (path, method) pair of the returned document holds exactly the
\* operation object built from the occurrence processed last in source order,
\* and every pair that occurs in the source is in the document.
C2_LastWriteWins ==
    Returned =>
        /\ \A pm \in Stored :
               /\ Writers(pm[1], pm[2]) # {}
               /\ output.paths[pm[1]][pm[2]] =
                      CleanOperation(BuildOperation(
                          SourceOperation(LastWriter(pm[1], pm[2])),
                          TagName(input_data.apis[LastWriter(pm[1], pm[2])[1]])))
        /\ \A t \in Occurrences :
               <<SourceEndpoint(t).path, Lower(SourceOperation(t).method)>> \in Stored

\* A document was returned in which one pair was written by two controllers with
\* different operations, and one pair twice within one declaration.
C2_Witness ==
    /\ Returned
    /\ \E t, u \in Occurrences :
           /\ t[1] < u[1]
           /\ SourceEndpoint(t).path = SourceEndpoint(u).path
           /\ Lower(SourceOperation(t).method) = Lower(SourceOperation(u).method)
           /\ SourceOperation(t) # SourceOperation(u)
    /\ \E t, u \in Occurrences :
           /\ t[1] = u[1] /\ Before(t, u)
           /\ SourceEndpoint(t).path = SourceEndpoint(u).path
           /\ Lower(SourceOperation(t).method) = Lower(SourceOperation(u).method)
           /\ SourceOperation(t) # SourceOperation(u)
    /\ \E pm \in Stored : Cardinality(DOMAIN output.paths[pm[1]]) > 1

\* The last message of msgs whose code is written as key
LastMessage(msgs, key) ==
    msgs[CHOOSE k \in DOMAIN msgs :
             /\ Str(msgs[k].code) = key
             /\ \A j \in DOMAIN msgs : j > k => Str(msgs[j].code) # key]

\* C3: a response object has no schema key when the source responseModel is
\* empty, and otherwise the schema {"$ref": "#/definitions/<responseModel>"}.
C3_SchemaAbsentWhenNoModel ==
    Returned =>
        \A pm \in Stored :
            LET msgs == Get(SourceOperation(LastWriter(pm[1], pm[2])), "responseMessages", <<>>)
                responses == Get(output.paths[pm[1]][pm[2]], "responses", EmptyDict)
            IN  \A key \in DOMAIN responses :
                    IF LastMessage(msgs, key).responseModel = <<>>
                    THEN "schema" \notin DOMAIN responses[key]
                    ELSE /\ "schema" \in DOMAIN responses[key]
                         /\ responses[key].schema =
                                ("$ref" :> (DefinitionsRef \o LastMessage(msgs, key).responseModel))

\* The properties of a source model that are flagged required
Flagged(model_def) ==
    {k \in DOMAIN model_def.properties : Get(model_def.properties[k].def, "required", FALSE)}

\* C4: a definition has no required key when no property of the model is flagged
\* required, and otherwise lists exactly the flagged property names.
C4_RequiredAbsentWhenNone ==
    Returned =>
        \A m \in DOMAIN Get(input_data, "models", EmptyDict) :
            LET model_def == input_data.models[m]
                definition == output.definitions[m]
            IN  IF Flagged(model_def) = {}
                THEN "required" \notin DOMAIN definition
                ELSE /\ "required" \in DOMAIN definition
                     /\ Len(definition.required) = Cardinality(Flagged(model_def))
                     /\ {definition.required[k] : k \in DOMAIN definition.required} =
                            {model_def.properties[k].name : k \in Flagged(model_def)}

\* A declaration with zero endpoints
ZeroEndpoints == [apis |-> <<>>]

\* The request made for API reference k failed
Failed(k) == ~requests[k + 1].ok

\* What was fetched, every failed fetch replaced by a declaration with zero endpoints
Substituted == [k \in DOMAIN details |-> IF Failed(k) THEN ZeroEndpoints ELSE details[k]]

\* The paths of the first n declarations of ds, merged in listing order
RECURSIVE PathsOf(_, _)
PathsOf(ds, n) ==
    IF n = 0 THEN EmptyDict
    ELSE MergeDeclaration(PathsOf(ds, n - 1), ds[n], TagName(input_data.apis[n]))

\* C6: once the listing is fetched, a failed declaration fetch does not end the
\* conversion: a document is returned, every API reference was requested, the
\* failed reference has its tag entry and contributes no operation, and the
\* paths are those of the same listing with zero endpoints in the failed
\* declarations.
C6_FailedFetchIsEmpty ==
    (pc \in {"returned", "done"} /\ requests # <<>> /\ requests[1].ok) =>
        /\ DOMAIN output # {}
        /\ Len(requests) = 1 + Len(input_data.apis)
        /\ Len(details) = Len(input_data.apis)
        /\ \A k \in DOMAIN input_data.apis :
               Failed(k) =>
                   /\ \E j \in DOMAIN output.tags :
                          output.tags[j].name = TagName(input_data.apis[k])
                   /\ \A t \in Occurrences : t[1] # k
        /\ output.paths = CleanUp(PathsOf(Substituted, Len(details)))

\* A document was returned although the fetch of one declaration failed, and a
\* later API reference contributed an operation.
C6_Witness ==
    /\ Returned
    /\ \E k \in DOMAIN input_data.apis :
           /\ Failed(k)
           /\ \E t \in Occurrences : t[1] > k
    /\ DOMAIN output.paths # {}

\* C8: in the returned document an operation has no parameters key when its
\* source has no parameter, no responses key when its source has no response
\* message, and a key that is present holds a non-empty collection.
C8_NoEmptyCollections ==
    Returned =>
        \A pm \in Stored :
            LET op  == output.paths[pm[1]][pm[2]]
                src == SourceOperation(LastWriter(pm[1], pm[2]))
            IN  /\ "parameters" \in DOMAIN op => Len(op.parameters) > 0
                /\ "responses" \in DOMAIN op => DOMAIN op.responses # {}
                /\ "parameters" \in DOMAIN op <=> Len(Get(src, "parameters", <<>>)) > 0
                /\ "responses" \in DOMAIN op <=> Len(Get(src, "responseMessages", <<>>)) > 0

\* A document was returned in which an operation that overwrote an earlier one
\* lost its parameters key, and an operation lost its responses key but kept
\* its parameters.
C8_Witness ==
    /\ Returned
    /\ \E pm \in Stored :
           /\ Cardinality(Writers(pm[1], pm[2])) > 1
           /\ "parameters" \notin DOMAIN output.paths[pm[1]][pm[2]]
           /\ "responses" \in DOMAIN output.paths[pm[1]][pm[2]]
    /\ \E pm \in Stored :
           /\ "responses" \notin DOMAIN output.paths[pm[1]][pm[2]]
           /\ "parameters" \in DOMAIN output.paths[pm[1]][pm[2]]

\* C9: every operation of the returned document has as its tags the one-element
\* list of the tag name of the API reference that wrote it last, and that name
\* is the name of an entry of the tags list.
C9_OperationTags ==
    Returned =>
        \A pm \in Stored :
            LET op == output.paths[pm[1]][pm[2]]
            IN  /\ op.tags = <<TagName(input_data.apis[LastWriter(pm[1], pm[2])[1]])>>
                /\ \E k \in DOMAIN output.tags : output.tags[k].name = op.tags[1]

\* A document was returned in which a pair was written by two API references
\* with different tag names.
C9_Witness ==
    /\ Returned
    /\ \E pm \in Stored :
           \E t \in Writers(pm[1], pm[2]) :
               TagName(input_data.apis[t[1]]) #
                   TagName(input_data.apis[LastWriter(pm[1], pm[2])[1]])

====
